---- MODULE Spec2Model ----
(***************************************************************************)
(* A model of moon-unit (src/src/lib.rs): the request builders, the route  *)
(* selection of the client, the tolerant response decoders and the         *)
(* timestamp resolution of the response records.                           *)
(*                                                                         *)
(* The library is purely functional, so the state is one call on the       *)
(* public interface: the operation and its arguments (call), whether it    *)
(* has returned (pc) and the value it returned (ret).  A query value that  *)
(* a call returned can be handed on to Client::phases / Client::one_day.   *)
(*                                                                         *)
(* Text is a sequence of one-character strings, so that formatting and     *)
(* parsing are computed digit by digit.  JSON values are records           *)
(*   [t |-> "num", n |-> Int]        an integer literal                    *)
(*   [t |-> "float", q |-> Int]      a fractional literal, in quarters     *)
(*   [t |-> "str", s |-> text]                                             *)
(*   [t |-> "map", kv |-> sequence of <<key, value>>]                      *)
(*   [t |-> "seq", items |-> sequence of values]                           *)
(***************************************************************************)
EXTENDS Integers, Sequences, FiniteSets, TLC

VARIABLES call, ret, pc

vars == <<call, ret, pc>>

----------------------------------------------------------------------------
(* Bounds of the enumerated inputs *)

MaxMonth == 13

MaxDay == 32

MaxCount == 101

MaxTzQuarters == 108

MaxStrLen == 4

MaxWireNum == 257

MaxMapLen == 2

MaxEntries == 2

----------------------------------------------------------------------------
(* Machine integer widths and library constants *)

U8Max == 255

U16Max == 65535

DEFAULT_BASE_URL == "https://aa.usno.navy.mil"

----------------------------------------------------------------------------
(* Results *)

Ok(v) == [ok |-> TRUE, val |-> v]

Err(e) == [ok |-> FALSE, err |-> e]

None == [some |-> FALSE]

Some(v) == [some |-> TRUE, v |-> v]

----------------------------------------------------------------------------
(* Text: decimal formatting (format!) and parsing (str::parse) *)

DigitChars == <<"0", "1", "2", "3", "4", "5", "6", "7", "8", "9">>

IsDigit(c) == \E i \in 1..10 : DigitChars[i] = c

DigitVal(c) == (CHOOSE i \in 1..10 : DigitChars[i] = c) - 1

RECURSIVE Digits(_)
(* Display of an unsigned integer: its decimal digits, no padding *)
Digits(n) == IF n < 10 THEN <<DigitChars[n + 1]>>
             ELSE Digits(n \div 10) \o <<DigitChars[(n % 10) + 1]>>

RECURSIVE Zeros(_)
Zeros(k) == IF k <= 0 THEN <<>> ELSE <<"0">> \o Zeros(k - 1)

(* Variant of PadZero: the width of the format is dropped *)
PadZero_unpadded(n, w) == Digits(n)

(* {n:0w}: zero padding up to width w, never truncating *)
PadZero(n, w) == Zeros(w - Len(Digits(n))) \o Digits(n)

RECURSIVE DigitsValue(_)
DigitsValue(s) == IF s = <<>> THEN 0
                  ELSE 10 * DigitsValue(SubSeq(s, 1, Len(s) - 1)) + DigitVal(s[Len(s)])

AllDigits(s) == \A i \in 1..Len(s) : IsDigit(s[i])

(* <unsigned>::from_str: an optional leading '+', then one or more digits, *)
(* the value within the width of the type                                  *)
ParseUnsigned(s, max) ==
    LET body == IF s # <<>> /\ s[1] = "+" THEN Tail(s) ELSE s
    IN  IF body = <<>> THEN Err("cannot parse integer from empty string")
        ELSE IF ~AllDigits(body) THEN Err("invalid digit found in string")
        ELSE IF DigitsValue(body) > max THEN Err("number too large to fit in target type")
        ELSE Ok(DigitsValue(body))

RECURSIVE trim_end_matches(_, _)
trim_end_matches(s, c) ==
    IF s # <<>> /\ s[Len(s)] = c THEN trim_end_matches(SubSeq(s, 1, Len(s) - 1), c) ELSE s

(* str::split_once: the text before and after the first occurrence of c *)
split_once(s, c) ==
    IF \E i \in 1..Len(s) : s[i] = c
    THEN LET i == CHOOSE j \in 1..Len(s) : s[j] = c /\ \A k \in 1..(j - 1) : s[k] # c
         IN  Some(<<SubSeq(s, 1, i - 1), SubSeq(s, i + 1, Len(s))>>)
    ELSE None

(* {x:.04} of a value given in ten-thousandths *)
FormatFixed4(x) ==
    LET a == IF x < 0 THEN -x ELSE x
    IN  (IF x < 0 THEN <<"-">> ELSE <<>>) \o Digits(a \div 10000) \o <<".">> \o PadZero(a % 10000, 4)

----------------------------------------------------------------------------
(* Request builders *)

OneDayArgs_new(year, month, day, lat, long, tz) ==
    [date   |-> PadZero(year, 4) \o <<"-">> \o PadZero(month, 2) \o <<"-">> \o PadZero(day, 2),
     coords |-> FormatFixed4(lat) \o <<",">> \o FormatFixed4(long),
     tz     |-> tz]

PhaseArgs_year(year) == [variant |-> "Year", year |-> year]

(* Variant of by_date: the upper bound of the count is off by one *)
by_date_off_by_one(year, month, day, count) ==
    IF count < 1 \/ count > 100
    THEN Err("Invalid count, must be between 1 and 99 inclusive")
    ELSE Ok([variant |-> "ByDate",
             date    |-> PadZero(year, 4) \o <<"-">> \o PadZero(month, 2) \o <<"-">> \o PadZero(day, 2),
             nump    |-> count])

by_date(year, month, day, count) ==
    IF count < 1 \/ count > 99
    THEN Err("Invalid count, must be between 1 and 99 inclusive")
    ELSE Ok([variant |-> "ByDate",
             date    |-> PadZero(year, 4) \o <<"-">> \o PadZero(month, 2) \o <<"-">> \o PadZero(day, 2),
             nump    |-> count])

(* The public enum variant PhaseArgs::ByDate { date, nump }, built directly *)
PhaseArgs_ByDate(date, nump) == [variant |-> "ByDate", date |-> date, nump |-> nump]

(* Serialize of the untagged enum: the fields of the variant, in order *)
PhaseArgs_serialize(query) ==
    IF query.variant = "Year"
    THEN <<[key |-> "year", num |-> query.year, text |-> <<>>]>>
    ELSE <<[key |-> "date", num |-> 0, text |-> query.date],
           [key |-> "nump", num |-> query.nump, text |-> <<>>]>>

OneDayArgs_serialize(query) ==
    <<[key |-> "date", num |-> 0, text |-> query.date],
      [key |-> "coords", num |-> 0, text |-> query.coords],
      [key |-> "tz", num |-> query.tz, text |-> <<>>]>>

----------------------------------------------------------------------------
(* Transport facade: the request each call issues *)

one_day(base_url, query) ==
    [url |-> <<base_url, "/api/rstt/oneday">>, query |-> OneDayArgs_serialize(query)]

(* Variant of phases: the test of the variant is inverted *)
phases_inverted(base_url, query) ==
    LET path == IF query.variant # "Year" THEN "year" ELSE "date"
    IN  [url |-> <<base_url, "/api/moon/phases/", path>>, query |-> PhaseArgs_serialize(query)]

phases(base_url, query) ==
    LET path == IF query.variant = "Year" THEN "year" ELSE "date"
    IN  [url |-> <<base_url, "/api/moon/phases/", path>>, query |-> PhaseArgs_serialize(query)]

----------------------------------------------------------------------------
(* JSON values as the deserializer sees them *)

JNum(n) == [t |-> "num", n |-> n]

JFloat(q) == [t |-> "float", q |-> q]

JStr(s) == [t |-> "str", s |-> s]

JMap(kv) == [t |-> "map", kv |-> kv]

JSeq(items) == [t |-> "seq", items |-> items]

----------------------------------------------------------------------------
(* Closed enumerations: variant, canonical name, accepted aliases *)

(* enum MoonPhase *)
MoonPhase ==
    <<[variant |-> "New",
       name |-> <<"N", "e", "w">>,
       alias |-> {<<"N", "e", "w", " ", "M", "o", "o", "n">>}],
      [variant |-> "WaxingCrescent",
       name |-> <<"W", "a", "x", "i", "n", "g", "C", "r", "e", "s", "c", "e", "n", "t">>,
       alias |-> {<<"W", "a", "x", "i", "n", "g", " ", "C", "r", "e", "s", "c", "e", "n", "t">>}],
      [variant |-> "FirstQuarter",
       name |-> <<"F", "i", "r", "s", "t", "Q", "u", "a", "r", "t", "e", "r">>,
       alias |-> {<<"F", "i", "r", "s", "t", " ", "Q", "u", "a", "r", "t", "e", "r">>}],
      [variant |-> "WaxingGibbous",
       name |-> <<"W", "a", "x", "i", "n", "g", "G", "i", "b", "b", "o", "u", "s">>,
       alias |-> {<<"W", "a", "x", "i", "n", "g", " ", "G", "i", "b", "b", "o", "u", "s">>}],
      [variant |-> "Full",
       name |-> <<"F", "u", "l", "l">>,
       alias |-> {<<"F", "u", "l", "l", " ", "M", "o", "o", "n">>}],
      [variant |-> "WaningGibbous",
       name |-> <<"W", "a", "n", "i", "n", "g", "G", "i", "b", "b", "o", "u", "s">>,
       alias |-> {<<"W", "a", "n", "i", "n", "g", " ", "G", "i", "b", "b", "o", "u", "s">>}],
      [variant |-> "LastQuarter",
       name |-> <<"L", "a", "s", "t", "Q", "u", "a", "r", "t", "e", "r">>,
       alias |-> {<<"L", "a", "s", "t", " ", "Q", "u", "a", "r", "t", "e", "r">>}],
      [variant |-> "WaningCrescent",
       name |-> <<"W", "a", "n", "i", "n", "g", "C", "r", "e", "s", "c", "e", "n", "t">>,
       alias |-> {<<"W", "a", "n", "i", "n", "g", " ", "C", "r", "e", "s", "c", "e", "n", "t">>}]>>

(* enum Phenomenon *)
Phenomenon ==
    <<[variant |-> "Rise",
       name |-> <<"R", "i", "s", "e">>,
       alias |-> {}],
      [variant |-> "Apex",
       name |-> <<"A", "p", "e", "x">>,
       alias |-> {<<"U", "p", "p", "e", "r", " ", "T", "r", "a", "n", "s", "i", "t">>}],
      [variant |-> "TwilightBegins",
       name |-> <<"T", "w", "i", "l", "i", "g", "h", "t", "B", "e", "g", "i", "n", "s">>,
       alias |-> {<<"B", "e", "g", "i", "n", " ", "C", "i", "v", "i", "l", " ", "T", "w", "i", "l", "i", "g", "h", "t">>}],
      [variant |-> "Set",
       name |-> <<"S", "e", "t">>,
       alias |-> {}],
      [variant |-> "TwilightEnds",
       name |-> <<"T", "w", "i", "l", "i", "g", "h", "t", "E", "n", "d", "s">>,
       alias |-> {<<"E", "n", "d", " ", "C", "i", "v", "i", "l", " ", "T", "w", "i", "l", "i", "g", "h", "t">>}]>>

(* Derived Deserialize of a unit-variant enum: the JSON string must be the *)
(* name or an alias of a variant                                           *)
DeEnum(variants, v) ==
    IF v.t # "str" THEN Err("invalid type, expected variant identifier")
    ELSE IF \E i \in 1..Len(variants) : v.s = variants[i].name \/ v.s \in variants[i].alias
         THEN Ok(variants[CHOOSE i \in 1..Len(variants) :
                              v.s = variants[i].name \/ v.s \in variants[i].alias].variant)
         ELSE Err("unknown variant")

(* Primitive unsigned integers: an integer literal within the width *)
DeUnsigned(v, max) ==
    IF v.t # "num" THEN Err("invalid type, expected unsigned integer")
    ELSE IF v.n < 0 \/ v.n > max THEN Err("invalid value, out of range")
    ELSE Ok(v.n)

(* f32, kept in quarter hours: integer and fractional literals both decode *)
DeF32(v) ==
    IF v.t = "num" THEN Ok(4 * v.n)
    ELSE IF v.t = "float" THEN Ok(v.q)
    ELSE Err("invalid type, expected f32")

DeString(v) == IF v.t = "str" THEN Ok(v.s) ELSE Err("invalid type, expected a string")

----------------------------------------------------------------------------
(* deser_fracillum: FracillumVisitor behind deserialize_any *)

FracillumVisitor_visit_str(v) ==
    LET r == ParseUnsigned(trim_end_matches(v, "%"), U8Max)
    IN  IF r.ok THEN r ELSE Err("Failed ot parse precent")

FracillumVisitor_visit_u8(v) == Ok(v)

(* The visitor defines visit_str and visit_u8 only.  Every other visit_*   *)
(* keeps the provided method of the Visitor trait, which rejects the value *)
(* as an invalid type; visit_u64 does not forward to visit_u8.             *)
FracillumVisitor_visit_u64(v) == Err("invalid type: integer")

(* deserialize_any of the JSON deserializer: a non-negative integer        *)
(* literal is handed over as u64, a negative one as i64, a fractional one  *)
(* as f64, a string as str                                                 *)
deser_fracillum(d) ==
    IF d.t = "str" THEN FracillumVisitor_visit_str(d.s)
    ELSE IF d.t = "num" /\ d.n >= 0 THEN FracillumVisitor_visit_u64(d.n)
    ELSE Err("invalid type")

----------------------------------------------------------------------------
(* deser_time: TimeVisitor behind deserialize_any *)

(* Variant of visit_str: the two sides of the colon are exchanged *)
TimeVisitor_visit_str_swapped(v) ==
    LET parts == split_once(v, ":")
    IN  IF ~parts.some THEN Err("time missing colon")
        ELSE LET hour   == ParseUnsigned(parts.v[2], U8Max)
                 minute == ParseUnsigned(parts.v[1], U8Max)
             IN  IF ~hour.ok THEN Err("invalid hour")
                 ELSE IF ~minute.ok THEN Err("invalid minute")
                 ELSE Ok([hour |-> hour.val, minute |-> minute.val])

TimeVisitor_visit_str(v) ==
    LET parts == split_once(v, ":")
    IN  IF ~parts.some THEN Err("time missing colon")
        ELSE LET hour   == ParseUnsigned(parts.v[1], U8Max)
                 minute == ParseUnsigned(parts.v[2], U8Max)
             IN  IF ~hour.ok THEN Err("invalid hour")
                 ELSE IF ~minute.ok THEN Err("invalid minute")
                 ELSE Ok([hour |-> hour.val, minute |-> minute.val])

RECURSIVE TimeVisitor_map_loop(_, _, _, _)
(* The while-let loop of visit_map over the entries from the i-th on.  An  *)
(* entry with another key has its value left unread, and the JSON map      *)
(* access then fails on the next next_key.                                 *)
TimeVisitor_map_loop(kv, i, hour, minute) ==
    IF i > Len(kv)
    THEN IF ~hour.some THEN Err("hour missing from map")
         ELSE IF ~minute.some THEN Err("minute missing from map")
         ELSE Ok([hour |-> hour.v, minute |-> minute.v])
    ELSE LET key   == kv[i][1]
             value == DeUnsigned(kv[i][2], U8Max)
         IN  IF key = "hour"
             THEN IF value.ok THEN TimeVisitor_map_loop(kv, i + 1, Some(value.val), minute)
                  ELSE value
             ELSE IF key = "minute"
             THEN IF value.ok THEN TimeVisitor_map_loop(kv, i + 1, hour, Some(value.val))
                  ELSE value
             ELSE Err("expected comma or end of object")

TimeVisitor_visit_map(kv) == TimeVisitor_map_loop(kv, 1, None, None)

deser_time(d) ==
    IF d.t = "str" THEN TimeVisitor_visit_str(d.s)
    ELSE IF d.t = "map" THEN TimeVisitor_visit_map(d.kv)
    ELSE Err("invalid type")

----------------------------------------------------------------------------
(* Response model: the fields of each derived Deserialize, in declaration  *)
(* order, with the serde attributes of each field                          *)

Time ==
    <<[name |-> "hour",   alias |-> {}, de |-> "u8"],
      [name |-> "minute", alias |-> {}, de |-> "u8"]>>

ClosestPhase ==
    <<[name |-> "day",   alias |-> {}, de |-> "u8"],
      [name |-> "month", alias |-> {}, de |-> "u8"],
      [name |-> "year",  alias |-> {}, de |-> "u16"],
      [name |-> "time",  alias |-> {}, de |-> "deser_time"],
      [name |-> "phase", alias |-> {}, de |-> "MoonPhase"]>>

CelestialEvent ==
    <<[name |-> "phenomenon", alias |-> {"phen"}, de |-> "Phenomenon"],
      [name |-> "time",       alias |-> {},       de |-> "deser_time"]>>

OneDayData ==
    <<[name |-> "closest_phase",       alias |-> {"closestphase"}, de |-> "ClosestPhase"],
      [name |-> "current_phase",       alias |-> {"curphase"},     de |-> "MoonPhase"],
      [name |-> "day_of_week",         alias |-> {},               de |-> "String"],
      [name |-> "percent_illuminated", alias |-> {"fracillum"},    de |-> "deser_fracillum"],
      [name |-> "moon_data",           alias |-> {"moondata"},     de |-> "Vec<CelestialEvent>"],
      [name |-> "sun_data",            alias |-> {"sundata"},      de |-> "Vec<CelestialEvent>"],
      [name |-> "month",               alias |-> {},               de |-> "u8"],
      [name |-> "day",                 alias |-> {},               de |-> "u8"],
      [name |-> "year",                alias |-> {},               de |-> "u16"],
      [name |-> "tz",                  alias |-> {},               de |-> "f32"]>>

OneDayProps == <<[name |-> "data", alias |-> {}, de |-> "OneDayData"]>>

OneDay == <<[name |-> "properties", alias |-> {}, de |-> "OneDayProps"]>>

(* The time field carries #[serde(alias = "deser_time")]: an alternative   *)
(* key for the field, which is decoded by the derived Deserialize of Time  *)
MoonPhaseEntry ==
    <<[name |-> "phase", alias |-> {},             de |-> "MoonPhase"],
      [name |-> "day",   alias |-> {},             de |-> "u8"],
      [name |-> "month", alias |-> {},             de |-> "u8"],
      [name |-> "year",  alias |-> {},             de |-> "u16"],
      [name |-> "time",  alias |-> {"deser_time"}, de |-> "Time"]>>

MoonPhasesResponse ==
    <<[name |-> "count",  alias |-> {"numphases"}, de |-> "u16"],
      [name |-> "phases", alias |-> {"phasedata"}, de |-> "Vec<MoonPhaseEntry>"]>>

(* The two struct variants of the untagged enum PhaseArgs *)
PhaseArgs ==
    <<[variant |-> "Year",   fields |-> <<[name |-> "year", alias |-> {}, de |-> "u16"]>>],
      [variant |-> "ByDate", fields |-> <<[name |-> "date", alias |-> {}, de |-> "String"],
                                          [name |-> "nump", alias |-> {}, de |-> "u16"]>>]>>

StructTable(tag) ==
    CASE tag = "Time"               -> Time
      [] tag = "ClosestPhase"       -> ClosestPhase
      [] tag = "CelestialEvent"     -> CelestialEvent
      [] tag = "OneDayData"         -> OneDayData
      [] tag = "OneDayProps"        -> OneDayProps
      [] tag = "OneDay"             -> OneDay
      [] tag = "MoonPhaseEntry"     -> MoonPhaseEntry
      [] tag = "MoonPhasesResponse" -> MoonPhasesResponse

StructTags == {"Time", "ClosestPhase", "CelestialEvent", "OneDayData", "OneDayProps",
               "OneDay", "MoonPhaseEntry", "MoonPhasesResponse"}

(* The record a struct decodes to, from the decoded value of each field *)
StructValue(fields, acc) ==
    [n \in {fields[j].name : j \in 1..Len(fields)} |->
        acc[CHOOSE j \in 1..Len(fields) : fields[j].name = n].v]

RECURSIVE De(_, _)
RECURSIVE StructMapLoop(_, _, _, _)
RECURSIVE StructSeqLoop(_, _, _, _)
RECURSIVE VecLoop(_, _, _, _)

(* Derived visit_map: a key is matched against the name and the aliases of *)
(* every field; a second value for a field is an error; any other key is   *)
(* skipped with its value; a field never seen is an error                  *)
StructMapLoop(fields, kv, i, acc) ==
    IF i > Len(kv)
    THEN IF \E j \in 1..Len(fields) : ~acc[j].some THEN Err("missing field")
         ELSE Ok(StructValue(fields, acc))
    ELSE LET key == kv[i][1]
             hit == {j \in 1..Len(fields) : fields[j].name = key \/ key \in fields[j].alias}
         IN  IF hit = {} THEN StructMapLoop(fields, kv, i + 1, acc)
             ELSE LET j == CHOOSE x \in hit : TRUE
                  IN  IF acc[j].some THEN Err("duplicate field")
                      ELSE LET r == De(fields[j].de, kv[i][2])
                           IN  IF r.ok
                               THEN StructMapLoop(fields, kv, i + 1, [acc EXCEPT ![j] = Some(r.val)])
                               ELSE r

(* Derived visit_seq: the fields by position *)
StructSeqLoop(fields, items, i, acc) ==
    IF i > Len(fields)
    THEN IF Len(items) > Len(fields) THEN Err("trailing characters")
         ELSE Ok(StructValue(fields, acc))
    ELSE IF i > Len(items) THEN Err("invalid length")
    ELSE LET r == De(fields[i].de, items[i])
         IN  IF r.ok THEN StructSeqLoop(fields, items, i + 1, [acc EXCEPT ![i] = Some(r.val)])
             ELSE r

DeStruct(fields, v) ==
    IF v.t = "map" THEN StructMapLoop(fields, v.kv, 1, [j \in 1..Len(fields) |-> None])
    ELSE IF v.t = "seq" THEN StructSeqLoop(fields, v.items, 1, [j \in 1..Len(fields) |-> None])
    ELSE Err("invalid type, expected struct")

VecLoop(tag, items, i, acc) ==
    IF i > Len(items) THEN Ok(acc)
    ELSE LET r == De(tag, items[i])
         IN  IF r.ok THEN VecLoop(tag, items, i + 1, Append(acc, r.val)) ELSE r

DeVec(tag, v) ==
    IF v.t = "seq" THEN VecLoop(tag, v.items, 1, <<>>) ELSE Err("invalid type, expected a sequence")

(* Deserialize of the type or deserialize_with function named by tag *)
De(tag, v) ==
    CASE tag = "u8"                   -> DeUnsigned(v, U8Max)
      [] tag = "u16"                  -> DeUnsigned(v, U16Max)
      [] tag = "f32"                  -> DeF32(v)
      [] tag = "String"               -> DeString(v)
      [] tag = "MoonPhase"            -> DeEnum(MoonPhase, v)
      [] tag = "Phenomenon"           -> DeEnum(Phenomenon, v)
      [] tag = "deser_time"           -> deser_time(v)
      [] tag = "deser_fracillum"      -> deser_fracillum(v)
      [] tag = "Vec<CelestialEvent>"  -> DeVec("CelestialEvent", v)
      [] tag = "Vec<MoonPhaseEntry>"  -> DeVec("MoonPhaseEntry", v)
      [] tag \in StructTags           -> DeStruct(StructTable(tag), v)

(* Deserialize of the untagged enum: the variants are tried in order *)
PhaseArgs_deserialize(v) ==
    LET asYear   == DeStruct(PhaseArgs[1].fields, v)
        asByDate == DeStruct(PhaseArgs[2].fields, v)
    IN  IF asYear.ok THEN Ok(PhaseArgs_year(asYear.val.year))
        ELSE IF asByDate.ok THEN Ok(PhaseArgs_ByDate(asByDate.val.date, asByDate.val.nump))
        ELSE Err("data did not match any variant of untagged enum PhaseArgs")

----------------------------------------------------------------------------
(* The calendar and offset types of the time crate, as the code uses them  *)

MaxYear == 9999

MaxOffsetHour == 25

Month_try_from(m) == IF m >= 1 /\ m <= 12 THEN Ok(m) ELSE Err("invalid month")

is_leap_year(y) == y % 4 = 0 /\ (y % 100 # 0 \/ y % 400 = 0)

days_in_month(y, m) ==
    IF m = 2 THEN (IF is_leap_year(y) THEN 29 ELSE 28)
    ELSE IF m \in {4, 6, 9, 11} THEN 30
    ELSE 31

Date_from_calendar_date(y, m, d) ==
    IF y < -MaxYear \/ y > MaxYear THEN Err("year out of range")
    ELSE IF d < 1 \/ d > days_in_month(y, m) THEN Err("day out of range")
    ELSE Ok([year |-> y, month |-> m, day |-> d])

Time_from_hms(h, m, s) ==
    IF h > 23 THEN Err("hour out of range")
    ELSE IF m > 59 THEN Err("minute out of range")
    ELSE IF s > 59 THEN Err("second out of range")
    ELSE Ok([hour |-> h, minute |-> m, second |-> s])

MIDNIGHT == [hour |-> 0, minute |-> 0, second |-> 0]

UTC == [hours |-> 0, minutes |-> 0, seconds |-> 0]

(* UtcOffset::from_hms: each component range-checked, then the smaller     *)
(* components take the sign of the larger one                              *)
UtcOffset_from_hms(h, m, s) ==
    IF h < -MaxOffsetHour \/ h > MaxOffsetHour THEN Err("hours out of range")
    ELSE IF m < -59 \/ m > 59 THEN Err("minutes out of range")
    ELSE IF s < -59 \/ s > 59 THEN Err("seconds out of range")
    ELSE LET m2 == IF (h > 0 /\ m < 0) \/ (h < 0 /\ m > 0) THEN -m ELSE m
             s2 == IF (h > 0 /\ s < 0) \/ (h < 0 /\ s > 0) \/ (m2 > 0 /\ s < 0) \/ (m2 < 0 /\ s > 0)
                   THEN -s ELSE s
         IN  Ok([hours |-> h, minutes |-> m2, seconds |-> s2])

----------------------------------------------------------------------------
(* f32 arithmetic on a value held in quarters (q stands for q / 4) *)

(* f32::floor, in whole units *)
floor(q) == q \div 4

(* f32::rem(1.0): the remainder has the sign of the dividend; in quarters *)
rem1(q) == IF q >= 0 THEN q % 4 ELSE -((-q) % 4)

(* `as i8` of a float: truncation toward zero, saturating; x is whole *)
as_i8(x) == IF x > 127 THEN 127 ELSE IF x < -128 THEN -128 ELSE x

----------------------------------------------------------------------------
(* Timestamp resolution *)

(* Variant of OneDayData::when: a day past the end of the month is moved   *)
(* to the last day of the month                                            *)
OneDayData_when_clamped(self) ==
    LET month == Month_try_from(self.month)
    IN  IF ~month.ok THEN Err("Invalid month in date")
        ELSE LET last == days_in_month(self.year, month.val)
                 dt   == Date_from_calendar_date(self.year, month.val,
                                                 IF self.day > last THEN last ELSE self.day)
             IN  IF ~dt.ok THEN Err("invalid date")
                 ELSE LET tz_hour   == as_i8(floor(self.tz))
                          tz_minute == as_i8((rem1(self.tz) * 60) \div 4)
                          off       == UtcOffset_from_hms(tz_hour, tz_minute, 0)
                          tz        == IF off.ok THEN off.val ELSE UTC
                      IN  Ok([date |-> dt.val, time |-> MIDNIGHT, offset |-> tz])

OneDayData_when(self) ==
    LET month == Month_try_from(self.month)
    IN  IF ~month.ok THEN Err("Invalid month in date")
        ELSE LET dt == Date_from_calendar_date(self.year, month.val, self.day)
             IN  IF ~dt.ok THEN Err("invalid date")
                 ELSE LET tz_hour   == as_i8(floor(self.tz))
                          tz_minute == as_i8((rem1(self.tz) * 60) \div 4)
                          off       == UtcOffset_from_hms(tz_hour, tz_minute, 0)
                          tz        == IF off.ok THEN off.val ELSE UTC
                      IN  Ok([date |-> dt.val, time |-> MIDNIGHT, offset |-> tz])

ClosestPhase_when(self) ==
    LET month == Month_try_from(self.month)
    IN  IF ~month.ok THEN Err("Invalid month in date")
        ELSE LET dt == Date_from_calendar_date(self.year, month.val, self.day)
             IN  IF ~dt.ok THEN Err("invalid date")
                 ELSE LET t == Time_from_hms(self.time.hour, self.time.minute, 0)
                      IN  IF ~t.ok THEN Err("invalid time")
                          ELSE Ok([date |-> dt.val, time |-> t.val])

MoonPhaseEntry_when(self) ==
    LET month == Month_try_from(self.month)
    IN  IF ~month.ok THEN Err("Invalid month in date")
        ELSE LET dt == Date_from_calendar_date(self.year, month.val, self.day)
             IN  IF ~dt.ok THEN Err("invalid date")
                 ELSE LET t == Time_from_hms(self.time.hour, self.time.minute, 0)
                      IN  IF ~t.ok THEN Err("invalid time")
                          ELSE Ok([date |-> dt.val, time |-> t.val])

----------------------------------------------------------------------------
(* Enumerated inputs *)

Years == {0, 7, 42, 999, 2024, 2025, MaxYear, MaxYear + 1, U16Max}

Months == 0..MaxMonth \cup {U8Max}

Days == 0..MaxDay \cup {U8Max}

Counts == 0..MaxCount \cup {U8Max + 1, U16Max}

(* latitude and longitude in ten-thousandths, tz in quarter hours *)
Places == {[lat |-> 439033, long |-> -916401, tz |-> -24],
           [lat |-> 0, long |-> 0, tz |-> 0],
           [lat |-> -5, long |-> 1800000, tz |-> 23]}

ByDateYears == {7, 2025, U16Max}

ByDateMonths == {4, 12, MaxMonth}

ByDateDays == {9, 25, MaxDay}

RECURSIVE Strings(_, _)
(* Every text of length at most n over the characters of alphabet *)
Strings(alphabet, n) ==
    IF n = 0 THEN {<<>>}
    ELSE LET shorter == Strings(alphabet, n - 1)
         IN  shorter \cup {Append(s, c) : s \in shorter, c \in alphabet}

RECURSIVE Maps(_, _)
(* Every JSON object of at most n entries drawn from entries *)
Maps(entries, n) ==
    IF n = 0 THEN {<<>>}
    ELSE LET shorter == Maps(entries, n - 1)
         IN  shorter \cup {Append(kv, e) : kv \in shorter, e \in entries}

DateTexts == {<<>>, <<"x">>,
              <<"2", "0", "2", "5", "-", "0", "4", "-", "2", "5">>}

(* Arguments of OneDayArgs::builder() ... build() *)
OneDayArgsInputs ==
    {[year |-> year, month |-> month, day |-> day,
      lat |-> place.lat, long |-> place.long, tz |-> place.tz] :
        year \in Years, month \in Months, day \in Days, place \in Places}
    \cup {[year |-> year, month |-> 4, day |-> 25, lat |-> 0, long |-> 0, tz |-> 0] :
              year \in 0..MaxYear}

(* Arguments of PhaseArgs::build_by_date() ... build() *)
ByDateInputs ==
    {[year |-> year, month |-> month, day |-> day, count |-> count] :
        year \in ByDateYears, month \in ByDateMonths, day \in ByDateDays, count \in Counts}

(* Fields a caller writes into PhaseArgs::ByDate { date, nump } *)
ByDateLiterals == {[date |-> date, nump |-> nump] : date \in DateTexts, nump \in Counts}

PhaseArgsWires ==
    {JMap(<<<<"year", JNum(y)>>>>) : y \in {2025, U16Max, U16Max + 1}}
    \cup {JMap(<<<<"date", JStr(d)>>, <<"nump", JNum(n)>>>>) :
              d \in DateTexts, n \in Counts \cup {U16Max + 1}}
    \cup {JMap(<<<<"nump", JNum(8)>>, <<"year", JNum(2025)>>, <<"date", JStr(<<>>)>>>>),
          JMap(<<>>), JStr(<<"x">>), JSeq(<<JNum(2025)>>),
          JSeq(<<JStr(<<"x">>), JNum(0)>>)}

----------------------------------------------------------------------------
(* Inputs of the field decoders *)

WireNums == 0..MaxWireNum

(* Hours and minutes: every pair with one side among the samples *)
TimeSamples == {0, 6, 30, 59, U8Max, U8Max + 1}

TimePairs ==
    (TimeSamples \X WireNums) \cup (WireNums \X TimeSamples)

TimeText(h, m) == Digits(h) \o <<":">> \o Digits(m)

TimeStruct(h, m) == JMap(<<<<"hour", JNum(h)>>, <<"minute", JNum(m)>>>>)

PercentText(n) == Digits(n) \o <<"%">>

(* The percentage n in either wire shape *)
FracillumInputs ==
    {[shape |-> "number", n |-> n, wire |-> JNum(n)] : n \in WireNums}
    \cup {[shape |-> "string", n |-> n, wire |-> JStr(PercentText(n))] : n \in WireNums}

FracillumRawInputs ==
    {[shape |-> "raw", n |-> 0, wire |-> w] :
        w \in {JStr(s) : s \in Strings({"8", "7", "%", "x", "+"}, MaxStrLen)}
              \cup {JNum(-1), JFloat(350), JMap(<<>>), JSeq(<<>>)}}

(* The time h:m in either wire shape *)
TimeInputs ==
    {[shape |-> "string", hour |-> p[1], minute |-> p[2],
      wire |-> JStr(TimeText(p[1], p[2]))] : p \in TimePairs}
    \cup {[shape |-> "struct", hour |-> p[1], minute |-> p[2],
           wire |-> TimeStruct(p[1], p[2])] : p \in TimePairs}

TimeMapEntries ==
    {<<k, v>> : k \in {"hour", "minute", "second"},
                v \in {JNum(6), JNum(U8Max + 1), JStr(<<"6">>)}}

TimeRawInputs ==
    {[shape |-> "raw", hour |-> 0, minute |-> 0, wire |-> w] :
        w \in {JStr(s) : s \in Strings({"1", "5", ":", "x", "+"}, MaxStrLen)}
              \cup {JMap(kv) : kv \in Maps(TimeMapEntries, MaxMapLen)}
              \cup {JNum(630), JFloat(26), JSeq(<<JNum(6), JNum(30)>>)}}

----------------------------------------------------------------------------
(* Response bodies.  A body is rendered from its content and from the      *)
(* spelling the provider uses for each field that has two spellings.       *)

AliasedFields == {"closest_phase", "current_phase", "percent_illuminated",
                  "moon_data", "sun_data", "phenomenon"}

(* The provider's spelling of a field, as the provider documents it *)
ProviderSpelling(name) ==
    CASE name = "closest_phase"       -> "closestphase"
      [] name = "current_phase"       -> "curphase"
      [] name = "percent_illuminated" -> "fracillum"
      [] name = "moon_data"           -> "moondata"
      [] name = "sun_data"            -> "sundata"
      [] name = "phenomenon"          -> "phen"
      [] OTHER                        -> name

(* sp is the set of fields spelled the provider's way *)
Key(name, sp) == IF name \in sp THEN ProviderSpelling(name) ELSE name

RenderTime(shape, h, m) == IF shape = "string" THEN JStr(TimeText(h, m)) ELSE TimeStruct(h, m)

Text_Friday == <<"F", "r", "i", "d", "a", "y">>

Text_Version == <<"4", ".", "0", ".", "1">>

RenderEvent(c, sp, i, h, m) ==
    JMap(<<<<Key("phenomenon", sp), JStr(Phenomenon[i].name)>>,
           <<"time", RenderTime(c.timeShape, h, m)>>>>)

RenderOneDayData(c, sp) ==
    LET closest == JMap(<<<<"day", JNum(27)>>, <<"month", JNum(4)>>,
                          <<"phase", JStr(<<"N", "e", "w", " ", "M", "o", "o", "n">>)>>,
                          <<"time", RenderTime(c.timeShape, 19, 31)>>,
                          <<"year", JNum(2025)>>>>)
        all == <<<<Key("closest_phase", sp), closest>>,
                 <<Key("current_phase", sp), JStr(c.phase)>>,
                 <<"day", JNum(25)>>,
                 <<"day_of_week", JStr(Text_Friday)>>,
                 <<Key("percent_illuminated", sp), c.pct>>,
                 <<"isdst", JNum(0)>>,
                 <<Key("moon_data", sp), JSeq(<<RenderEvent(c, sp, 1, 4, 37),
                                               RenderEvent(c, sp, 4, 17, 5)>>)>>,
                 <<"month", JNum(4)>>,
                 <<Key("sun_data", sp), JSeq(<<RenderEvent(c, sp, 1, 6, 2)>>)>>,
                 <<"tz", c.tz>>,
                 <<"year", JNum(2025)>>>>
    IN  JMap(SelectSeq(all, LAMBDA e : e[1] # Key(c.omit, sp)))

RenderOneDay(c, sp) ==
    JMap(<<<<"apiversion", JStr(Text_Version)>>,
           <<"properties", JMap(<<<<"data", RenderOneDayData(c, sp)>>>>)>>>>)

OneDayContents ==
    {[pct |-> pct, timeShape |-> shape, omit |-> omit, tz |-> tz, phase |-> phase] :
        pct \in {JNum(87), JStr(PercentText(87)), JStr(<<"x", "%">>)},
        shape \in {"string", "struct"},
        omit \in {"none", "day_of_week", "percent_illuminated"},
        tz \in {JNum(0), JFloat(-14)},
        phase \in {MoonPhase[8].name}}

OneDayBodies == {[content |-> c, spelling |-> sp] : c \in OneDayContents, sp \in SUBSET AliasedFields}

RenderEntry(c, i) ==
    JMap(<<<<"day", JNum(13 + i)>>, <<"month", JNum(1)>>,
           <<"phase", JStr(IF c.spelled = "name" THEN MoonPhase[c.phase].name
                           ELSE CHOOSE a \in MoonPhase[c.phase].alias : TRUE)>>,
           <<c.timeKey, RenderTime(c.timeShape, c.hour, c.minute)>>,
           <<"year", JNum(2025)>>>>)

RenderPhases(c) ==
    JMap(<<<<"apiversion", JStr(Text_Version)>>,
           <<"day", JNum(13)>>, <<"month", JNum(1)>>,
           <<c.countKey, JNum(c.n)>>,
           <<"phasedata", JSeq([i \in 1..c.n |-> RenderEntry(c, i)])>>,
           <<"year", JNum(2025)>>>>)

PhasesContents ==
    {[n |-> n, timeShape |-> shape, hour |-> h, minute |-> m, phase |-> ph,
      spelled |-> spelled, timeKey |-> tk, countKey |-> ck] :
        n \in 1..MaxEntries, shape \in {"string", "struct"}, h \in {6, 22}, m \in {0, 27},
        ph \in 1..Len(MoonPhase), spelled \in {"name", "alias"},
        tk \in {"time", "deser_time"}, ck \in {"numphases", "count"}}

----------------------------------------------------------------------------
(* Stored records handed to the timestamp resolution *)

WhenYears == {1900, 2000, 2024, 2025, MaxYear, MaxYear + 1, U16Max}

TzQuarters == (-MaxTzQuarters)..MaxTzQuarters \cup {-800, 800}

OneDayDataRecords ==
    {[year |-> y, month |-> m, day |-> d, tz |-> 0] : y \in WhenYears, m \in Months, d \in Days}
    \cup {[year |-> 2025, month |-> 4, day |-> d, tz |-> q] : d \in {25, 31}, q \in TzQuarters}

StoredTimes == {[hour |-> 0, minute |-> 0], [hour |-> 23, minute |-> 59],
                [hour |-> 24, minute |-> 0], [hour |-> 6, minute |-> 60]}

PhaseRecords ==
    {[year |-> y, month |-> m, day |-> d, time |-> t] :
        y \in {2000, 2023, 2024}, m \in Months, d \in Days, t \in StoredTimes}

----------------------------------------------------------------------------
(* The state after construction: a client with the default base URL, and   *)
(* a caller about to make one call with arguments of its choice            *)

NoValue == [pending |-> TRUE]

Calls(op, inputs) == \E i \in inputs : call = [op |-> op, in |-> i]

Init ==
    /\ pc = "call"
    /\ ret = NoValue
    /\ \/ Calls("OneDayArgs::new", OneDayArgsInputs)
       \/ Calls("PhaseArgs::year", {[year |-> y] : y \in Years})
       \/ Calls("PhaseArgs::by_date", ByDateInputs)
       \/ Calls("PhaseArgs::ByDate", ByDateLiterals)
       \/ Calls("PhaseArgs::deserialize", {[wire |-> w] : w \in PhaseArgsWires})
       \/ Calls("deser_fracillum", FracillumInputs \cup FracillumRawInputs)
       \/ Calls("deser_time", TimeInputs \cup TimeRawInputs)
       \/ Calls("OneDay::deserialize", OneDayBodies)
       \/ Calls("MoonPhasesResponse::deserialize", PhasesContents)
       \/ Calls("OneDayData::when", OneDayDataRecords)
       \/ Calls("ClosestPhase::when", PhaseRecords)
       \/ Calls("MoonPhaseEntry::when", PhaseRecords)

(* The call returns value *)
Return(op, value) ==
    /\ pc = "call"
    /\ call.op = op
    /\ ret' = value
    /\ pc' = "done"
    /\ UNCHANGED call

----------------------------------------------------------------------------
(* Request construction *)

BuildOneDayArgs ==
    Return("OneDayArgs::new",
           OneDayArgs_new(call.in.year, call.in.month, call.in.day,
                          call.in.lat, call.in.long, call.in.tz))

BuildYear == Return("PhaseArgs::year", Ok(PhaseArgs_year(call.in.year)))

BuildByDate ==
    Return("PhaseArgs::by_date",
           by_date(call.in.year, call.in.month, call.in.day, call.in.count))

(* PhaseArgs::ByDate { date, nump } written by the caller: the enum and    *)
(* the fields of its variants are public                                   *)
ConstructByDate ==
    Return("PhaseArgs::ByDate", Ok(PhaseArgs_ByDate(call.in.date, call.in.nump)))

DeserializePhaseArgs == Return("PhaseArgs::deserialize", PhaseArgs_deserialize(call.in.wire))

(* The query value the caller holds once the call has returned *)
HoldsPhaseArgs ==
    /\ pc = "done"
    /\ call.op \in {"PhaseArgs::year", "PhaseArgs::by_date", "PhaseArgs::ByDate",
                    "PhaseArgs::deserialize"}
    /\ ret.ok

HoldsOneDayArgs == pc = "done" /\ call.op = "OneDayArgs::new"

----------------------------------------------------------------------------
(* Requests: the caller hands the query it holds to the client *)

CallPhases ==
    /\ HoldsPhaseArgs
    /\ call' = [op |-> "Client::phases", in |-> ret.val]
    /\ ret' = phases(DEFAULT_BASE_URL, ret.val)
    /\ pc' = "sent"

CallOneDay ==
    /\ HoldsOneDayArgs
    /\ call' = [op |-> "Client::one_day", in |-> ret]
    /\ ret' = one_day(DEFAULT_BASE_URL, ret)
    /\ pc' = "sent"

----------------------------------------------------------------------------
(* Response decoding *)

DeserFracillum == Return("deser_fracillum", deser_fracillum(call.in.wire))

DeserTime == Return("deser_time", deser_time(call.in.wire))

DecodeOneDay ==
    Return("OneDay::deserialize", De("OneDay", RenderOneDay(call.in.content, call.in.spelling)))

DecodeMoonPhases ==
    Return("MoonPhasesResponse::deserialize", De("MoonPhasesResponse", RenderPhases(call.in)))

----------------------------------------------------------------------------
(* Timestamp resolution *)

OneDayDataWhen == Return("OneDayData::when", OneDayData_when(call.in))

ClosestPhaseWhen == Return("ClosestPhase::when", ClosestPhase_when(call.in))

MoonPhaseEntryWhen == Return("MoonPhaseEntry::when", MoonPhaseEntry_when(call.in))

----------------------------------------------------------------------------

Next ==
    \/ BuildOneDayArgs
    \/ BuildYear
    \/ BuildByDate
    \/ ConstructByDate
    \/ DeserializePhaseArgs
    \/ CallPhases
    \/ CallOneDay
    \/ DeserFracillum
    \/ DeserTime
    \/ DecodeOneDay
    \/ DecodeMoonPhases
    \/ OneDayDataWhen
    \/ ClosestPhaseWhen
    \/ MoonPhaseEntryWhen

Spec == Init /\ [][Next]_vars

----------------------------------------------------------------------------
(* Vocabulary of the properties, stated without the model's operators *)

Returned(op) == pc = "done" /\ call.op = op

DecimalDigits == {"0", "1", "2", "3", "4", "5", "6", "7", "8", "9"}

DigitOf(c) ==
    CHOOSE k \in 0..9 : c = <<"0", "1", "2", "3", "4", "5", "6", "7", "8", "9">>[k + 1]

(* A numeral: an optional sign '+' and at least one decimal digit *)
Numeric(s) ==
    LET body == IF s # <<>> /\ s[1] = "+" THEN Tail(s) ELSE s
    IN  body # <<>> /\ \A i \in 1..Len(body) : body[i] \in DecimalDigits

HasColon(s) == \E i \in 1..Len(s) : s[i] = ":"

FirstColon(s) == CHOOSE i \in 1..Len(s) : s[i] = ":" /\ \A k \in 1..(i - 1) : s[k] # ":"

HasKey(kv, key) == \E i \in 1..Len(kv) : kv[i][1] = key

Keys(params) == [i \in 1..Len(params) |-> params[i].key]

(* The Gregorian calendar *)
LeapYear(y) == (y % 400 = 0) \/ (y % 4 = 0 /\ y % 100 # 0)

MonthLengths == <<31, 28, 31, 30, 31, 30, 31, 31, 30, 31, 30, 31>>

ValidCalendarDate(y, m, d) ==
    /\ m \in 1..12
    /\ d >= 1
    /\ d <= (IF m = 2 /\ LeapYear(y) THEN 29 ELSE MonthLengths[m])

IsWhen == pc = "done" /\ call.op \in {"OneDayData::when", "ClosestPhase::when", "MoonPhaseEntry::when"}

----------------------------------------------------------------------------
(* Properties *)

(* C1: PhaseArgs::by_date returns Ok exactly for a count in 1..=99 and an  *)
(* error for every other u16 count, whatever the date; on success the      *)
(* stored nump is the given count, unchanged.                              *)
C1_ByDateCountRange ==
    Returned("PhaseArgs::by_date") =>
        /\ ret.ok <=> (call.in.count >= 1 /\ call.in.count <= 99)
        /\ ret.ok => (ret.val.variant = "ByDate" /\ ret.val.nump = call.in.count)

C1_Witness ==
    /\ Returned("PhaseArgs::by_date")
    /\ call.in.count = 99
    /\ ret.ok
    /\ ret.val.nump = 99

(* C2: no PhaseArgs::ByDate value a caller obtains through the public      *)
(* interface holds a nump outside 1..=99, and every request Client::phases *)
(* sends to the date endpoint carries nump in [1, 99].                     *)
C2_NumpAlwaysInRange ==
    /\ (HoldsPhaseArgs /\ ret.val.variant = "ByDate") =>
           (ret.val.nump >= 1 /\ ret.val.nump <= 99)
    /\ (pc = "sent" /\ call.op = "Client::phases" /\ ret.url[3] = "date") =>
           \A i \in 1..Len(ret.query) :
               ret.query[i].key = "nump" => (ret.query[i].num >= 1 /\ ret.query[i].num <= 99)

(* C3: for every n in 0..=255, decoding the percentage from the bare JSON  *)
(* number n and from the JSON string "n%" both succeed and yield n, the    *)
(* deserializer handing a bare non-negative integer over as a u64.         *)
C3_PercentShapeAgnostic ==
    (Returned("deser_fracillum") /\ call.in.shape \in {"number", "string"} /\ call.in.n <= 255) =>
        ret = Ok(call.in.n)

(* C4: for every hour h and minute m in 0..=255, deser_time of the string  *)
(* "h:m" and of the structured value {hour: h, minute: m} both succeed and *)
(* yield Time{hour: h, minute: m}; a string with no colon, a string with a *)
(* non-numeric component, and a map without hour or without minute yield a *)
(* decode error.                                                           *)
C4_TimeShapeAgnostic ==
    Returned("deser_time") =>
        LET wire == call.in.wire
        IN  /\ (call.in.shape \in {"string", "struct"} /\ call.in.hour <= 255 /\ call.in.minute <= 255)
                   => ret = Ok([hour |-> call.in.hour, minute |-> call.in.minute])
            /\ (wire.t = "str" /\ ~HasColon(wire.s)) => ~ret.ok
            /\ (wire.t = "str" /\ HasColon(wire.s)
                    /\ (\/ ~Numeric(SubSeq(wire.s, 1, FirstColon(wire.s) - 1))
                        \/ ~Numeric(SubSeq(wire.s, FirstColon(wire.s) + 1, Len(wire.s)))))
                   => ~ret.ok
            /\ (wire.t = "map" /\ (~HasKey(wire.kv, "hour") \/ ~HasKey(wire.kv, "minute")))
                   => ~ret.ok

C4_Witness ==
    /\ Returned("deser_time")
    /\ call.in.shape = "string"
    /\ call.in.wire = JStr(<<"6", ":", "3", "0">>)
    /\ ret = Ok([hour |-> 6, minute |-> 30])

(* C5: Client::phases picks the route from the variant alone: a Year value *)
(* goes to /api/moon/phases/year with the single parameter year, a ByDate  *)
(* value to /api/moon/phases/date with exactly the parameters date and     *)
(* nump.                                                                   *)
C5_RouteByVariant ==
    (pc = "sent" /\ call.op = "Client::phases") =>
        IF call.in.variant = "Year"
        THEN /\ ret.url = <<DEFAULT_BASE_URL, "/api/moon/phases/", "year">>
             /\ Keys(ret.query) = <<"year">>
             /\ ret.query[1].num = call.in.year
        ELSE /\ call.in.variant = "ByDate"
             /\ ret.url = <<DEFAULT_BASE_URL, "/api/moon/phases/", "date">>
             /\ Keys(ret.query) = <<"date", "nump">>
             /\ ret.query[1].text = call.in.date
             /\ ret.query[2].num = call.in.nump

C5_Witness ==
    /\ pc = "sent"
    /\ call.op = "Client::phases"
    /\ call.in.variant = "ByDate"
    /\ ret.url[3] = "date"
    /\ ret.query[1].text = <<"2", "0", "2", "5", "-", "0", "4", "-", "2", "5">>
    /\ ret.query[2].num = 8

(* C6: OneDayData::when, ClosestPhase::when and MoonPhaseEntry::when       *)
(* return an error when the stored month is outside 1..=12 or the stored   *)
(* day is not a day of that month in that year, and never return an        *)
(* instant whose date differs from the stored year, month and day.         *)
C6_ImpossibleDateRejected ==
    IsWhen =>
        /\ ~ValidCalendarDate(call.in.year, call.in.month, call.in.day) => ~ret.ok
        /\ ret.ok => ret.val.date = [year |-> call.in.year, month |-> call.in.month,
                                     day |-> call.in.day]

C6_Witness ==
    /\ Returned("OneDayData::when")
    /\ call.in.year = 2025
    /\ call.in.month = 2
    /\ call.in.day = 29
    /\ ~ret.ok

(* C7: both builders format the date as zero-padded YYYY-MM-DD: for a year *)
(* in 0..=9999, a month in 1..=12 and a day in 1..=31 the text has exactly *)
(* 10 characters, 4 digits, '-', 2 digits, '-', 2 digits, and reads back   *)
(* as the same three numbers.                                              *)
C7_DateZeroPadded ==
    LET built == /\ pc = "done"
                 /\ call.op \in {"OneDayArgs::new", "PhaseArgs::by_date"}
                 /\ (call.op = "PhaseArgs::by_date" => ret.ok)
        date  == IF call.op = "OneDayArgs::new" THEN ret.date ELSE ret.val.date
        D(i)  == DigitOf(date[i])
    IN  (/\ built
         /\ call.in.year <= 9999
         /\ call.in.month >= 1 /\ call.in.month <= 12
         /\ call.in.day >= 1 /\ call.in.day <= 31)
        => /\ Len(date) = 10
           /\ date[5] = "-" /\ date[8] = "-"
           /\ \A i \in {1, 2, 3, 4, 6, 7, 9, 10} : date[i] \in DecimalDigits
           /\ 1000 * D(1) + 100 * D(2) + 10 * D(3) + D(4) = call.in.year
           /\ 10 * D(6) + D(7) = call.in.month
           /\ 10 * D(9) + D(10) = call.in.day

C7_Witness ==
    /\ Returned("OneDayArgs::new")
    /\ call.in.year = 2025 /\ call.in.month = 4 /\ call.in.day = 25
    /\ ret.date = <<"2", "0", "2", "5", "-", "0", "4", "-", "2", "5">>

(* A body carries every field and a percentage in one of the two shapes    *)
(* the provider uses                                                       *)
WellFormedOneDay(c) ==
    /\ c.omit = "none"
    /\ c.pct \in {JNum(87), JStr(<<"8", "7", "%">>)}

(* C8: for every single-day payload, the response spelling a field with    *)
(* the provider alias and the response spelling it with the canonical name *)
(* both decode successfully and yield identical records.                   *)
C8_AliasTolerance ==
    (Returned("OneDay::deserialize") /\ WellFormedOneDay(call.in.content)) =>
        /\ ret.ok
        /\ De("OneDay", RenderOneDay(call.in.content, {})).ok
        /\ ret = De("OneDay", RenderOneDay(call.in.content, {}))

(* Whatever the spelling of the field names, the body decodes to the same  *)
(* result as the body with the canonical spelling: the same record, or the *)
(* same error                                                              *)
AliasSpellingIrrelevant ==
    Returned("OneDay::deserialize") =>
        ret = De("OneDay", RenderOneDay(call.in.content, {}))

(* C9: for a record with a valid date and a timezone offset of t hours, t  *)
(* a multiple of a quarter hour, OneDayData::when returns midnight of the  *)
(* record's date at the offset equal to t, hours trunc(t) and minutes      *)
(* (t - trunc(t)) * 60; when these cannot form a valid offset the result   *)
(* is midnight at UTC, never an error.                                     *)
C9_OffsetEqualsTz ==
    LET q      == call.in.tz
        hours  == IF q >= 0 THEN q \div 4 ELSE -((-q) \div 4)
        minute == (q - 4 * hours) * 15
        offset == IF hours >= -MaxOffsetHour /\ hours <= MaxOffsetHour
                  THEN [hours |-> hours, minutes |-> minute, seconds |-> 0]
                  ELSE UTC
    IN  (/\ Returned("OneDayData::when")
         /\ call.in.year <= MaxYear
         /\ ValidCalendarDate(call.in.year, call.in.month, call.in.day))
        => ret = Ok([date   |-> [year |-> call.in.year, month |-> call.in.month,
                                 day |-> call.in.day],
                     time   |-> MIDNIGHT,
                     offset |-> offset])

(* C10: a phase-calendar response whose entries carry time as the string   *)
(* "h:m" decodes successfully, to the same entries as the response whose   *)
(* entries carry time as {hour: h, minute: m}.                             *)
C10_EntryTimeEitherShape ==
    (Returned("MoonPhasesResponse::deserialize") /\ call.in.timeKey = "time") =>
        ret = Ok([count  |-> call.in.n,
                  phases |-> [i \in 1..call.in.n |->
                                 [phase |-> MoonPhase[call.in.phase].variant,
                                  day   |-> 13 + i,
                                  month |-> 1,
                                  year  |-> 2025,
                                  time  |-> [hour |-> call.in.hour, minute |-> call.in.minute]]]])

====
